---- MODULE Spec2Model ----
(***************************************************************************)
(* A model of tap-tilroy: the page loop of TilroyStream.request_records,   *)
(* the date window of SalesStream.get_url_params, the generic              *)
(* flatten_record and the five entity adapters' post_process.              *)
(***************************************************************************)
EXTENDS Integers, Sequences, FiniteSets, TLC

VARIABLES
    pc,         \* per stream: position of the request_records generator
    page,       \* per stream: the local `page` of request_records
    records,    \* per stream: the local `records` (the page being yielded)
    pos,        \* per stream: how many of `records` have been yielded
    requests,   \* per stream: history of the GETs issued
    responses,  \* per stream: history of what the server answered
    yielded,    \* per stream: history of the records handed to the consumer
    pulls,      \* per stream: history, number of next() calls of the consumer
    bookmark,   \* the stored bookmark of the sales stream: << >> or <<datetime>>
    config,     \* self.config["start_date"], a string
    now,        \* what datetime.now() returns
    wpc,        \* get_url_params: "ready", "returned" or "raised"
    params,     \* the dict get_url_params returned, as ordered pairs
    stream,     \* the class whose method is applied to row
    row,        \* the record handed to flatten_record or post_process
    ppc,        \* the call: "ready", "returned" or "raised"
    out         \* what the call returned, a JSON value (None until then)

pageVars == <<pc, page, records, pos, requests, responses, yielded, pulls>>

windowVars == <<bookmark, config, now, wpc, params>>

recordVars == <<stream, row, ppc, out>>

vars == <<pageVars, windowVars, recordVars>>

----------------------------------------------------------------------------
(* Bounds of the model *)

\* The server answers full pages only for page < MaxPages.
MaxPages == 4

\* The same limit where several streams run side by side.
MaxConcurrentPages == 2

\* Bookmarks lie in the years BookmarkYears and FirstYear..LastYear.
FirstYear == 2023
LastYear == 2024

\* Records handed to flatten_record: mappings nested MaxDepth deep, with at
\* most MaxWidth keys at the top.
MaxDepth == 2
MaxWidth == 2

\* Records handed to post_process hold at most MaxNested nested source keys.
MaxNested == 2

----------------------------------------------------------------------------
(* The streams *)

StreamNames == {"shops", "products", "purchase_orders", "stock_changes", "sales"}

TilroyStream_default_count == 100
ProductsStream_default_count == 1000
PurchaseOrdersStream_default_count == 100

default_count(s) ==
    CASE s = "products" -> ProductsStream_default_count
      [] s = "purchase_orders" -> PurchaseOrdersStream_default_count
      [] OTHER -> TilroyStream_default_count

path(s) ==
    CASE s = "shops" -> "/shopapi/production/shops"
      [] s = "products" -> "/product-bulk/production/products"
      [] s = "purchase_orders" -> "/purchaseapi/production/purchaseorders"
      [] s = "stock_changes" -> "/stockapi/production/export/stockdeltas"
      [] s = "sales" -> "/saleapi/production/export/sales"

\* None stands for Python's None.
replication_key(s) ==
    CASE s = "purchase_orders" -> "orderDate"
      [] s = "stock_changes" -> "timestamp"
      [] s = "sales" -> "saleDate"
      [] OTHER -> "None"

----------------------------------------------------------------------------
(* Dates.  A date is [y, m, d]; a datetime adds the seconds of the day.    *)
(* A string is a sequence of one-character strings.                        *)

IsLeap(y) == y % 4 = 0 /\ (y % 100 # 0 \/ y % 400 = 0)

DaysInMonth(y, m) ==
    CASE m \in {4, 6, 9, 11} -> 30
      [] m = 2 -> IF IsLeap(y) THEN 29 ELSE 28
      [] OTHER -> 31

RECURSIVE DaysBeforeMonth(_, _)
DaysBeforeMonth(y, m) ==
    IF m = 1 THEN 0 ELSE DaysBeforeMonth(y, m - 1) + DaysInMonth(y, m - 1)

DaysBeforeYear(y) ==
    (y - 1) * 365 + ((y - 1) \div 4) - ((y - 1) \div 100) + ((y - 1) \div 400)

\* date.toordinal(): 0001-01-01 is day 1.
ToOrdinal(dt) == DaysBeforeYear(dt.y) + DaysBeforeMonth(dt.y, dt.m) + dt.d

\* date.fromordinal(n), by 400-, 100-, 4- and 1-year cycles as datetime does.
FromOrdinal(n) ==
    LET n0 == n - 1
        n400 == n0 \div 146097
        r400 == n0 % 146097
        n100 == r400 \div 36524
        r100 == r400 % 36524
        n4 == r100 \div 1461
        r4 == r100 % 1461
        n1 == r4 \div 365
        r1 == r4 % 365
        year == n400 * 400 + 1 + n100 * 100 + n4 * 4 + n1
    IN  IF n1 = 4 \/ n100 = 4
          THEN [y |-> year - 1, m |-> 12, d |-> 31]
          ELSE LET month == CHOOSE k \in 1..12 :
                              /\ DaysBeforeMonth(year, k) <= r1
                              /\ r1 < DaysBeforeMonth(year, k) + DaysInMonth(year, k)
               IN  [y |-> year, m |-> month,
                    d |-> r1 - DaysBeforeMonth(year, month) + 1]

\* line 437: start_date - timedelta(days=1); the time of day is kept.
MinusOneDay(dt) ==
    LET prev == FromOrdinal(ToOrdinal(dt) - 1)
    IN  [y |-> prev.y, m |-> prev.m, d |-> prev.d, secs |-> dt.secs]

Digits == <<"0", "1", "2", "3", "4", "5", "6", "7", "8", "9">>

DigitChar(k) == Digits[k + 1]

IsDigit(ch) == \E k \in 1..10 : Digits[k] = ch

DigitValue(ch) == (CHOOSE k \in 1..10 : Digits[k] = ch) - 1

RECURSIVE NumberValue(_)
\* The number a non-empty string of digits denotes.
NumberValue(str) ==
    IF Len(str) = 1 THEN DigitValue(str[1])
    ELSE NumberValue(SubSeq(str, 1, Len(str) - 1)) * 10 + DigitValue(str[Len(str)])

Pad2(k) == <<DigitChar(k \div 10), DigitChar(k % 10)>>

Pad4(k) == <<DigitChar(k \div 1000), DigitChar((k \div 100) % 10),
             DigitChar((k \div 10) % 10), DigitChar(k % 10)>>

\* lines 440, 443: strftime("%Y-%m-%d"), for years 1000..9999.
Strftime(dt) == Pad4(dt.y) \o <<"-">> \o Pad2(dt.m) \o <<"-">> \o Pad2(dt.d)

\* Mutant of Strptime: a string that names no date falls back to a default
\* date instead of raising.
Strptime_Fallback(str) ==
    IF /\ Len(str) = 10
       /\ str[5] = "-"
       /\ str[8] = "-"
       /\ \A i \in {1, 2, 3, 4, 6, 7, 9, 10} : IsDigit(str[i])
       /\ NumberValue(SubSeq(str, 6, 7)) \in 1..12
       /\ NumberValue(SubSeq(str, 9, 10)) \in
            1..DaysInMonth(NumberValue(SubSeq(str, 1, 4)), NumberValue(SubSeq(str, 6, 7)))
      THEN << [y |-> NumberValue(SubSeq(str, 1, 4)),
               m |-> NumberValue(SubSeq(str, 6, 7)),
               d |-> NumberValue(SubSeq(str, 9, 10)), secs |-> 0] >>
      ELSE << [y |-> 2024, m |-> 1, d |-> 1, secs |-> 0] >>

\* line 434: datetime.strptime(str, "%Y-%m-%d"): four digits, one or two
\* digits, one or two digits, separated by "-", that name a date of the
\* calendar.  << >> stands for ValueError, <<dt>> for the datetime.
Strptime(str) ==
    LET dashes == {i \in 1..Len(str) : str[i] = "-"}
    IN  IF /\ Cardinality(dashes) = 2
           /\ \A i \in (1..Len(str)) \ dashes : IsDigit(str[i])
           /\ 5 \in dashes
           /\ \E j \in dashes : j \in {7, 8} /\ Len(str) - j \in {1, 2}
          THEN LET j == CHOOSE k \in dashes : k # 5
                   yy == NumberValue(SubSeq(str, 1, 4))
                   mm == NumberValue(SubSeq(str, 6, j - 1))
                   dd == NumberValue(SubSeq(str, j + 1, Len(str)))
               IN  IF /\ yy >= 1
                      /\ mm \in 1..12
                      /\ dd >= 1
                      /\ dd <= DaysInMonth(yy, mm)
                     THEN << [y |-> yy, m |-> mm, d |-> dd, secs |-> 0] >>
                     ELSE << >>
          ELSE << >>

----------------------------------------------------------------------------
(* Ordered dicts: a Python dict is a sequence of <<key, value>> pairs with  *)
(* distinct keys, in insertion order.                                      *)

Keys(dict) == {dict[i][1] : i \in 1..Len(dict)}

Has(dict, k) == k \in Keys(dict)

Get(dict, k) == dict[CHOOSE i \in 1..Len(dict) : dict[i][1] = k][2]

\* dict[k] = v: an existing key keeps its place, a new one goes last.
Set(dict, k, v) ==
    IF Has(dict, k)
      THEN [i \in 1..Len(dict) |-> IF dict[i][1] = k THEN <<k, v>> ELSE dict[i]]
      ELSE Append(dict, <<k, v>>)

----------------------------------------------------------------------------
(* SalesStream.get_url_params *)

\* The state store's bookmark reader: None (<< >>) when no bookmark exists,
\* else the bookmark as a datetime.
get_starting_time == bookmark

\* line 427: RESTStream.get_url_params of the framework returns a new dict.
super_get_url_params == << >>

\* Mutant of WindowStart: the overlap day is not taken off the bookmark.
WindowStart_NoOverlap ==
    IF get_starting_time = << >>
      THEN Strptime(config)
      ELSE <<get_starting_time[1]>>

\* lines 430-437: the start of the window, << >> when strptime raised.
WindowStart ==
    IF get_starting_time = << >>
      THEN Strptime(config)
      ELSE <<MinusOneDay(get_starting_time[1])>>

\* Mutant of WindowParams: the upper bound is left open.
WindowParams_NoDateTo(start) ==
    Set(super_get_url_params, "dateFrom", Strftime(start))

\* lines 440-443: the two entries added to params.
WindowParams(start) ==
    Set(Set(super_get_url_params, "dateFrom", Strftime(start)),
        "dateTo", Strftime(now))

get_url_params ==
    /\ wpc = "ready"
    /\ IF WindowStart = << >>
         THEN /\ wpc' = "raised"
              /\ params' = << >>
         ELSE /\ wpc' = "returned"
              /\ params' = WindowParams(WindowStart[1])
    /\ UNCHANGED <<bookmark, config, now>>
    /\ UNCHANGED <<pageVars, recordVars>>

\* Strings of the configuration: dates of the calendar, padded or not, and
\* strings strptime rejects.
ConfigStartDates ==
    { <<"2", "0", "2", "4", "-", "0", "1", "-", "0", "1">>,
      <<"2", "0", "2", "3", "-", "1", "2", "-", "3", "1">>,
      <<"2", "0", "2", "4", "-", "0", "2", "-", "2", "9">>,
      <<"2", "0", "2", "4", "-", "3", "-", "9">>,
      <<"2", "0", "2", "3", "-", "0", "2", "-", "2", "9">>,
      <<"2", "0", "2", "4", "-", "1", "3", "-", "0", "1">>,
      <<"0", "1", "-", "0", "1", "-", "2", "0", "2", "4">>,
      <<"2", "0", "2", "4", "0", "1", "0", "1">>,
      << >> }

\* Years with the leap rules of a century.
BookmarkYears == {1900, 2000}

DatesOf(years) ==
    {[y |-> yy, m |-> mm, d |-> dd] :
        yy \in years, mm \in 1..12, dd \in 1..31}

Bookmarks ==
    {[y |-> dt.y, m |-> dt.m, d |-> dt.d, secs |-> ss] :
        dt \in {x \in DatesOf(BookmarkYears \cup (FirstYear..LastYear)) :
                  x.d <= DaysInMonth(x.y, x.m)},
        ss \in {0, 86399}}

Nows == {[y |-> 2024, m |-> 5, d |-> 2, secs |-> 0],
         [y |-> 2025, m |-> 12, d |-> 31, secs |-> 86399]}

----------------------------------------------------------------------------
(* JSON values: a scalar [s |-> ...], an array [l |-> <<values>>] or a      *)
(* mapping [d |-> ordered dict].  A record is an ordered dict.             *)

IsDict(v) == "d" \in DOMAIN v

IsList(v) == "l" \in DOMAIN v

IsScalar(v) == "s" \in DOMAIN v

None == [s |-> "None"]

\* Mutant of Del: the arrays of the record go with the deleted key.
Del_WithArrays(dict, k) == SelectSeq(dict, LAMBDA kv : kv[1] # k /\ ~IsList(kv[2]))

\* del dict[k]
Del(dict, k) == SelectSeq(dict, LAMBDA kv : kv[1] # k)

RECURSIVE DictOf_FirstWins(_)
\* Mutant of DictOf: a repeated key keeps its first value.
DictOf_FirstWins(items) ==
    IF items = << >> THEN << >>
    ELSE LET n == Len(items)
             rest == DictOf_FirstWins(SubSeq(items, 1, n - 1))
         IN  IF Has(rest, items[n][1]) THEN rest ELSE Append(rest, items[n])

RECURSIVE DictOf(_)
\* line 64: dict(items): a repeated key keeps its first place and takes the
\* last value.
DictOf(items) ==
    IF items = << >> THEN << >>
    ELSE LET n == Len(items)
         IN  Set(DictOf(SubSeq(items, 1, n - 1)), items[n][1], items[n][2])

\* Mutant of NewKey: the separator is put before top-level keys too.
NewKey_LeadingSep(parent_key, sep, key) == parent_key \o sep \o key

\* Mutant of NewKey: top-level keys are prefixed too, by the name "root".
NewKey_Rooted(parent_key, sep, key) ==
    (IF parent_key # "" THEN parent_key ELSE "root") \o sep \o key

\* line 54
NewKey(parent_key, sep, key) ==
    IF parent_key # "" THEN parent_key \o sep \o key ELSE key

RECURSIVE FlattenItems(_, _, _)
\* lines 52-62: the list `items` after the loop over record.
FlattenItems(record, parent_key, sep) ==
    IF record = << >> THEN << >>
    ELSE LET key == record[1][1]
             value == record[1][2]
             new_key == NewKey(parent_key, sep, key)
         IN  (IF IsDict(value)
                THEN DictOf(FlattenItems(value.d, new_key, sep))
                ELSE << <<new_key, value>> >>)
             \o FlattenItems(Tail(record), parent_key, sep)

\* lines 41-64
flatten_record(record, parent_key, sep) ==
    DictOf(FlattenItems(record, parent_key, sep))

\* Ordered dicts of at most w keys from K with values from V.
OrderedDicts(K, V, w) ==
    UNION { {f \in [1..n -> K \X V] :
               \A i, j \in 1..n : i # j => f[i][1] # f[j][1]} : n \in 0..w }

TopKeys == {"a", "b", "a.b"}

InnerKeys == {"b", "c"}

\* A scalar, and an array that holds a mapping with a mapping in it.
Leaves ==
    { [s |-> "1"],
      [l |-> << [d |-> << <<"b", [d |-> << <<"c", [s |-> "2"]>> >>]>> >>] >>] }

RECURSIVE InnerValues(_)
\* Values nested at most k mappings deep.
InnerValues(k) ==
    IF k = 0 THEN Leaves
    ELSE Leaves \cup {[d |-> m] : m \in OrderedDicts(InnerKeys, InnerValues(k - 1), 1)}

FlattenInputs == OrderedDicts(TopKeys, InnerValues(MaxDepth), MaxWidth)

\* self.flatten_record(row)
Flatten ==
    /\ stream = "TilroyStream"
    /\ ppc = "ready"
    /\ out' = [d |-> flatten_record(row, "", ".")]
    /\ ppc' = "returned"
    /\ UNCHANGED <<stream, row>>
    /\ UNCHANGED <<pageVars, windowVars>>

\* self.flatten_record(flat): flatten_record called on its own result.
Reflatten ==
    /\ stream = "TilroyStream"
    /\ ppc = "returned"
    /\ out' = [d |-> flatten_record(out.d, "", ".")]
    /\ ppc' = "again"
    /\ UNCHANGED <<stream, row>>
    /\ UNCHANGED <<pageVars, windowVars>>

----------------------------------------------------------------------------
(* The entity adapters' post_process.  A call either returns a row or      *)
(* raises: [ok |-> TRUE, row |-> ...] or [ok |-> FALSE, exc |-> ...].       *)

Ok(r) == [ok |-> TRUE, row |-> r]

Raise(e) == [ok |-> FALSE, exc |-> e]

\* obj.get(k) of a mapping
DictGet(obj, k) == IF Has(obj.d, k) THEN Get(obj.d, k) ELSE None

\* obj.get(k, default) of a mapping
DictGetDefault(obj, k, default) == IF Has(obj.d, k) THEN Get(obj.d, k) ELSE default

\* `k in obj`: a key test on a mapping, an element test on an array (no
\* array of the model holds the string k), TypeError on None or a number.
CanContain(obj) == IsDict(obj) \/ IsList(obj)

Contains(obj, k) == IsDict(obj) /\ Has(obj.d, k)

RECURSIVE SetFields(_, _, _)
\* row[target] = obj.get(sub) for each <<target, sub>> of fields, in order.
SetFields(r, obj, fields) ==
    IF fields = << >> THEN r
    ELSE SetFields(Set(r, fields[1][1], DictGet(obj, fields[1][2])), obj, Tail(fields))

\* Mutant of Extract: the nested source key is left in the row.
Extract_KeepSource(res, src, fields) ==
    IF ~res.ok \/ ~Has(res.row, src) THEN res
    ELSE IF ~IsDict(Get(res.row, src)) THEN Raise("AttributeError")
    ELSE Ok(SetFields(res.row, Get(res.row, src), fields))

\* The block every adapter repeats:
\*     if src in row: obj = row[src]; row[target] = obj.get(sub) ...; del row[src]
\* .get on a value that is no mapping raises AttributeError.
Extract(res, src, fields) ==
    IF ~res.ok \/ ~Has(res.row, src) THEN res
    ELSE IF ~IsDict(Get(res.row, src)) THEN Raise("AttributeError")
    ELSE Ok(Del(SetFields(res.row, Get(res.row, src), fields), src))

\* streams.py:28-54
ShopsFields(src) ==
    CASE src = "type" -> << <<"type_tilroyId", "tilroyId">>, <<"type_code", "code">> >>
      [] src = "subType" -> << <<"subType_tilroyId", "tilroyId">>, <<"subType_code", "code">> >>
      [] src = "language" -> << <<"language_tilroyId", "tilroyId">>, <<"language_code", "code">> >>
      [] src = "country" -> << <<"country_tilroyId", "tilroyId">>,
                               <<"country_countryCode", "countryCode">> >>

\* streams.py:18-56
ShopsStream_post_process(r) ==
    Extract(Extract(Extract(Extract(Ok(r),
        "type", ShopsFields("type")),
        "subType", ShopsFields("subType")),
        "language", ShopsFields("language")),
        "country", ShopsFields("country"))

\* Mutant of BrandDescriptions: the array is flattened away.
BrandDescriptions_Dropped(brand) == [l |-> << >>]

\* streams.py:104: brand.get("descriptions", [])
BrandDescriptions(brand) == DictGetDefault(brand, "descriptions", [l |-> << >>])

\* streams.py:89-107
ProductsStream_post_process(r) ==
    IF ~Has(r, "brand") THEN Ok(r)
    ELSE IF ~IsDict(Get(r, "brand")) THEN Raise("AttributeError")
    ELSE Ok(Del(Set(Set(r, "brand_code", DictGet(Get(r, "brand"), "code")),
                    "brand_descriptions", BrandDescriptions(Get(r, "brand"))),
                "brand"))

\* streams.py:205-224
PurchaseOrdersFields(src) ==
    CASE src = "supplier" -> << <<"supplier_tilroyId", "tilroyId">>,
                                <<"supplier_code", "code">>,
                                <<"supplier_name", "name">> >>
      [] src = "warehouse" -> << <<"warehouse_number", "number">>,
                                 <<"warehouse_name", "name">> >>
      [] src = "currency" -> << <<"currency_code", "code">> >>

\* streams.py:231-234 and 237-240
PriceFields(cur) ==
    << <<"prices_" \o cur \o "_standardVatExc", "standardVatExc">>,
       <<"prices_" \o cur \o "_standardVatInc", "standardVatInc">>,
       <<"prices_" \o cur \o "_vatExc", "vatExc">>,
       <<"prices_" \o cur \o "_vatInc", "vatInc">> >>

\* streams.py:229-234 and 235-240: one currency of prices.
ExtractPrice(res, prices, cur) ==
    IF ~res.ok \/ ~Contains(prices, cur) THEN res
    ELSE IF ~IsDict(Get(prices.d, cur)) THEN Raise("AttributeError")
    ELSE Ok(SetFields(res.row, Get(prices.d, cur), PriceFields(cur)))

\* streams.py:226-241
ExtractPrices(res) ==
    IF ~res.ok \/ ~Has(res.row, "prices") THEN res
    ELSE LET prices == Get(res.row, "prices")
         IN  IF ~CanContain(prices) THEN Raise("TypeError")
             ELSE LET both == ExtractPrice(ExtractPrice(res, prices, "tenantCurrency"),
                                           prices, "supplierCurrency")
                  IN  IF both.ok THEN Ok(Del(both.row, "prices")) ELSE both

\* Mutant of ExtractAudit: the three keys are written and the source key is
\* deleted whether or not the object has a user.
ExtractAudit_Always(res, src) ==
    IF ~res.ok \/ ~Has(res.row, src) THEN res
    ELSE LET obj == Get(res.row, src)
             user == IF Contains(obj, "user") /\ IsDict(Get(obj.d, "user"))
                       THEN Get(obj.d, "user") ELSE [d |-> << >>]
         IN  IF ~CanContain(obj) THEN Raise("TypeError")
             ELSE Ok(Del(Set(SetFields(res.row, user,
                                       << <<src \o "_user_login", "login">>,
                                          <<src \o "_user_sourceId", "sourceId">> >>),
                             src \o "_timestamp", DictGet(obj, "timestamp")),
                         src))

\* streams.py:243-249 and 251-257: created and modified.
ExtractAudit(res, src) ==
    IF ~res.ok \/ ~Has(res.row, src) THEN res
    ELSE LET obj == Get(res.row, src)
         IN  IF ~CanContain(obj) THEN Raise("TypeError")
             ELSE IF ~Contains(obj, "user") THEN res
             ELSE IF ~IsDict(Get(obj.d, "user")) THEN Raise("AttributeError")
             ELSE Ok(Del(Set(SetFields(res.row, Get(obj.d, "user"),
                                       << <<src \o "_user_login", "login">>,
                                          <<src \o "_user_sourceId", "sourceId">> >>),
                             src \o "_timestamp", DictGet(obj, "timestamp")),
                         src))

\* streams.py:195-259
PurchaseOrdersStream_post_process(r) ==
    ExtractAudit(ExtractAudit(ExtractPrices(Extract(Extract(Extract(Ok(r),
        "supplier", PurchaseOrdersFields("supplier")),
        "warehouse", PurchaseOrdersFields("warehouse")),
        "currency", PurchaseOrdersFields("currency"))),
        "created"),
        "modified")

\* streams.py:346-378
StockChangesFields(src) ==
    CASE src = "shop" -> << <<"shop_number", "number">>, <<"shop_sourceId", "sourceId">> >>
      [] src = "product" -> << <<"product_code", "code">>, <<"product_sourceId", "sourceId">> >>
      [] src = "colour" -> << <<"colour_code", "code">>, <<"colour_sourceId", "sourceId">> >>
      [] src = "size" -> << <<"size_code", "code">> >>
      [] src = "sku" -> << <<"sku_barcode", "barcode">>, <<"sku_sourceId", "sourceId">> >>

\* streams.py:336-380
StockChangesStream_post_process(r) ==
    Extract(Extract(Extract(Extract(Extract(Ok(r),
        "shop", StockChangesFields("shop")),
        "product", StockChangesFields("product")),
        "colour", StockChangesFields("colour")),
        "size", StockChangesFields("size")),
        "sku", StockChangesFields("sku"))

\* streams.py:466-480: the subfields of vatTypeCalculation.
VatTypeCalculationSubfields ==
    <<"UseCalculation", "IdVatType", "VatTypeCode", "VatExempt", "IsVatIncl",
      "IsIntraComm", "IsExport", "IsCustom", "IdCountryFrom",
      "CountryFromIsIntrastat", "IdCountryTo", "CountryToIsIntrastat",
      "Invoice", "VatNumber", "IdCustomer">>

\* streams.py:457-508
SalesFields(src) ==
    CASE src = "customer" -> << <<"customer_idTilroy", "idTilroy">>,
                                <<"customer_idSource", "idSource">> >>
      [] src = "vatTypeCalculation" ->
           [i \in 1..Len(VatTypeCalculationSubfields) |->
              <<"vatTypeCalculation_" \o VatTypeCalculationSubfields[i],
                VatTypeCalculationSubfields[i]>>]
      [] src = "shop" -> << <<"shop_idTilroy", "idTilroy">>,
                            <<"shop_idSource", "idSource">>,
                            <<"shop_number", "number">>,
                            <<"shop_name", "name">>,
                            <<"shop_country", "country">> >>
      [] src = "till" -> << <<"till_idTilroy", "idTilroy">>,
                            <<"till_number", "number">>,
                            <<"till_idSource", "idSource">> >>
      [] src = "legalEntity" -> << <<"legalEntity_idTilroy", "idTilroy">>,
                                   <<"legalEntity_code", "code">>,
                                   <<"legalEntity_name", "name">>,
                                   <<"legalEntity_vatNr", "vatNr">> >>

\* streams.py:447-510
SalesStream_post_process(r) ==
    Extract(Extract(Extract(Extract(Extract(Ok(r),
        "customer", SalesFields("customer")),
        "vatTypeCalculation", SalesFields("vatTypeCalculation")),
        "shop", SalesFields("shop")),
        "till", SalesFields("till")),
        "legalEntity", SalesFields("legalEntity"))

\* Mutant of post_process_of: flatten_record runs before the adapter's rules.
post_process_of_FlattenFirst(s, r) ==
    CASE s = "shops" -> ShopsStream_post_process(flatten_record(r, "", "."))
      [] s = "products" -> ProductsStream_post_process(flatten_record(r, "", "."))
      [] s = "purchase_orders" ->
           PurchaseOrdersStream_post_process(flatten_record(r, "", "."))
      [] s = "stock_changes" -> StockChangesStream_post_process(flatten_record(r, "", "."))
      [] s = "sales" -> SalesStream_post_process(flatten_record(r, "", "."))

\* The post_process of stream s.
post_process_of(s, r) ==
    CASE s = "shops" -> ShopsStream_post_process(r)
      [] s = "products" -> ProductsStream_post_process(r)
      [] s = "purchase_orders" -> PurchaseOrdersStream_post_process(r)
      [] s = "stock_changes" -> StockChangesStream_post_process(r)
      [] s = "sales" -> SalesStream_post_process(r)

\* stream.post_process(row, context)
post_process ==
    /\ stream \in StreamNames
    /\ ppc = "ready"
    /\ LET res == post_process_of(stream, row)
       IN  IF res.ok
             THEN /\ ppc' = "returned"
                  /\ out' = [d |-> res.row]
             ELSE /\ ppc' = "raised"
                  /\ out' = None
    /\ UNCHANGED <<stream, row>>
    /\ UNCHANGED <<pageVars, windowVars>>

----------------------------------------------------------------------------
(* The records handed to post_process *)

\* The nested source keys of each adapter, in the order of its code.
SourceKeys(s) ==
    CASE s = "shops" -> <<"type", "subType", "language", "country">>
      [] s = "products" -> <<"brand">>
      [] s = "purchase_orders" ->
           <<"supplier", "warehouse", "currency", "prices", "created", "modified">>
      [] s = "stock_changes" -> <<"shop", "product", "colour", "size", "sku">>
      [] s = "sales" -> <<"customer", "vatTypeCalculation", "shop", "till", "legalEntity">>

\* The <<target, subfield>> pairs of the adapters' plain blocks.
FieldsOf(s, src) ==
    CASE s = "shops" -> ShopsFields(src)
      [] s = "purchase_orders" -> PurchaseOrdersFields(src)
      [] s = "stock_changes" -> StockChangesFields(src)
      [] s = "sales" -> SalesFields(src)

\* A mapping with every subfield of names, each holding a scalar of its own.
FullObject(names) == [d |-> [i \in 1..Len(names) |-> <<names[i], [s |-> names[i]]>>]]

PriceSubfields == <<"standardVatExc", "standardVatInc", "vatExc", "vatInc">>

\* What a vendor record may hold under a nested source key: null, an empty
\* mapping, the whole object, a part of it, an object of other fields; for
\* the keys tested with `in`, also an array.
ValuesOf(s, src) ==
    CASE s = "products" ->
           { None,
             [d |-> << >>],
             [d |-> << <<"code", [s |-> "B1"]>>,
                       <<"descriptions",
                         [l |-> << [d |-> << <<"languageCode", [s |-> "EN"]>>,
                                             <<"standard", [s |-> "Brand"]>> >>],
                                   [d |-> << <<"languageCode", [s |-> "NL"]>> >>] >>]>> >>],
             [d |-> << <<"code", [s |-> "B1"]>> >>],
             [d |-> << <<"descriptions", [l |-> << >>]>> >>] }
      [] s = "purchase_orders" /\ src = "prices" ->
           { None,
             [l |-> << >>],
             [d |-> << >>],
             [d |-> << <<"tenantCurrency", FullObject(PriceSubfields)>> >>],
             [d |-> << <<"supplierCurrency", FullObject(PriceSubfields)>>,
                       <<"tenantCurrency", [d |-> << >>]>> >>],
             [d |-> << <<"tenantCurrency", None>> >>] }
      [] s = "purchase_orders" /\ src \in {"created", "modified"} ->
           { None,
             [l |-> << >>],
             [d |-> << >>],
             [d |-> << <<"user", FullObject(<<"login", "sourceId">>)>>,
                       <<"timestamp", [s |-> "timestamp"]>> >>],
             [d |-> << <<"timestamp", [s |-> "timestamp"]>> >>],
             [d |-> << <<"user", [d |-> << <<"login", [s |-> "login"]>> >>]>> >>],
             [d |-> << <<"user", None>> >>] }
      [] OTHER ->
           LET names == [i \in 1..Len(FieldsOf(s, src)) |-> FieldsOf(s, src)[i][2]]
           IN  { None,
                 [d |-> << >>],
                 FullObject(names),
                 [d |-> << <<names[1], [s |-> names[1]]>> >>],
                 [d |-> << <<"x", [s |-> "1"]>> >>] }

\* A flattened key that a record may hold before post_process.
PresetKey(s) ==
    CASE s = "shops" -> "type_code"
      [] s = "products" -> "brand_code"
      [] s = "purchase_orders" -> "created_timestamp"
      [] s = "stock_changes" -> "shop_number"
      [] s = "sales" -> "customer_idTilroy"

\* An array of line objects, as the vendor sends under lines, payments, vat.
LinesOf(name) ==
    [l |-> << [d |-> << <<"id", [s |-> name]>>,
                        <<"sku", [d |-> << <<"barcode", [s |-> "123"]>> >>]>> >>],
              [d |-> << <<"id", None>> >>] >>]

\* The top-level keys a record may hold besides the nested source keys: its
\* id, the two fields of the vendor's error envelope, a key named like a
\* flattened one, a mapping no adapter names, three arrays of objects.
PlainPairs(s) ==
    << <<"tilroyId", [s |-> "1"]>>, <<"code", [s |-> "X"]>>,
       <<"message", [s |-> "Y"]>>, <<PresetKey(s), [s |-> "old"]>>,
       <<"address", [d |-> << <<"street", [s |-> "Main"]>>,
                              <<"geo", [d |-> << <<"lat", [s |-> "51"]>> >>]>> >>]>>,
       <<"lines", LinesOf("line")>>, <<"payments", LinesOf("payment")>>,
       <<"vat", LinesOf("vat")>> >>

\* Which of the plain pairs a record holds together.
PlainChoices ==
    { {}, {1}, {1, 2}, {2, 3}, {1, 2, 3}, {1, 4}, {1, 5}, {5}, {1, 6},
      {1, 6, 7, 8}, {4, 5, 6} }

\* The subsequence of seq at the indices in S.
Pick(seq, S) == SelectSeq([i \in 1..Len(seq) |-> IF i \in S THEN <<seq[i]>> ELSE << >>],
                          LAMBDA x : x # << >>)

\* The records of stream s: some plain pairs, then at most MaxNested nested
\* source keys, in the order of SourceKeys.
RowsOf(s) ==
    LET n == Len(SourceKeys(s))
        choices == UNION { [S -> UNION {ValuesOf(s, SourceKeys(s)[i]) : i \in 1..n}] :
                            S \in {T \in SUBSET (1..n) : Cardinality(T) <= MaxNested} }
        fitting == {f \in choices :
                      \A i \in DOMAIN f : f[i] \in ValuesOf(s, SourceKeys(s)[i])}
        nested(f) == Pick([i \in 1..n |->
                             <<SourceKeys(s)[i], IF i \in DOMAIN f THEN f[i] ELSE None>>],
                          DOMAIN f)
        plain(P) == Pick(PlainPairs(s), P)
    IN  { [i \in 1..Len(plain(P) \o nested(f)) |-> (plain(P) \o nested(f))[i][1]] :
            P \in PlainChoices, f \in fitting }

----------------------------------------------------------------------------
(* request_records: a generator driven by the consumer's next() calls.     *)
(* It is suspended either before its first statement ("ready"), inside     *)
(* requests.get ("inflight") or at `yield record` ("suspended"); it ends   *)
(* by returning ("done") or by raising ("raised").  "idle" is a stream     *)
(* that is not run.                                                        *)

\* The exceptions one GET can end in: requests.get raising, raise_for_status
\* raising, response.json() raising.
RequestErrors == {"ConnectionError", "HTTPError", "JSONDecodeError"}

\* Mutant of Url: pages are numbered from zero.
Url_ZeroBased(s, p) == [path |-> path(s),
                        query |-> << <<"count", default_count(s)>>, <<"page", p - 1>> >>]

\* The url of line 104: base, path and the query string, as ordered pairs.
Url(s, p) == [path |-> path(s),
              query |-> << <<"count", default_count(s)>>, <<"page", p>> >>]

\* The page a mocked server returns: n records, each known by the page
\* parameter of the request and its place in the page.
PageOf(p, n) == [i \in 1..n |-> <<p, i>>]

\* Sizes a mocked page may have for page size c.
PageSizes(c) == {0, 1, c - 1, c}

\* Mutant of IsShortPage: a full page also ends the loop.
IsShortPage_OffByOne(s, recs) == Len(recs) <= default_count(s)

\* line 124: a short page is the last one.
IsShortPage(s, recs) == Len(recs) < default_count(s)

\* Mutant of IssueRequest: the page counter is one attribute shared by all
\* streams instead of a local of each generator.
IssueRequest_SharedPage(s, p) ==
    /\ page' = [t \in StreamNames |-> p]
    /\ requests' = [requests EXCEPT ![s] = Append(@, Url(s, p))]
    /\ pc' = [pc EXCEPT ![s] = "inflight"]

\* lines 104-108: build the url and call requests.get.
IssueRequest(s, p) ==
    /\ page' = [page EXCEPT ![s] = p]
    /\ requests' = [requests EXCEPT ![s] = Append(@, Url(s, p))]
    /\ pc' = [pc EXCEPT ![s] = "inflight"]

\* Mutant of RaiseError: the error is logged and the same page asked again.
RaiseError_Retry(s, e) ==
    /\ pc' = [pc EXCEPT ![s] = "inflight"]
    /\ requests' = [requests EXCEPT ![s] = Append(@, Url(s, page[s]))]
    /\ UNCHANGED <<page, records, pos, yielded>>

\* lines 129-137: log and re-raise; the generator is finished.
RaiseError(s, e) ==
    /\ pc' = [pc EXCEPT ![s] = "raised"]
    /\ UNCHANGED <<page, requests, records, pos, yielded>>

\* Mutant of TakePage: the next page is requested as soon as a page arrives.
TakePage_Prefetch(s, recs) ==
    /\ records' = [records EXCEPT ![s] = recs]
    /\ pc' = [pc EXCEPT ![s] = IF recs = << >> THEN "done" ELSE "suspended"]
    /\ pos' = [pos EXCEPT ![s] = IF recs = << >> THEN 0 ELSE 1]
    /\ yielded' = [yielded EXCEPT ![s] = IF recs = << >> THEN @ ELSE Append(@, recs[1])]
    /\ requests' = [requests EXCEPT ![s] =
                      IF recs = << >> THEN @ ELSE Append(@, Url(s, page[s] + 1))]
    /\ UNCHANGED page

\* lines 112-121: parse, extract, stop on an empty page, else yield the first.
TakePage(s, recs) ==
    /\ records' = [records EXCEPT ![s] = recs]
    /\ IF recs = << >>
         THEN /\ pc' = [pc EXCEPT ![s] = "done"]
              /\ pos' = [pos EXCEPT ![s] = 0]
              /\ UNCHANGED yielded
         ELSE /\ pc' = [pc EXCEPT ![s] = "suspended"]
              /\ pos' = [pos EXCEPT ![s] = 1]
              /\ yielded' = [yielded EXCEPT ![s] = Append(@, recs[1])]
    /\ UNCHANGED <<page, requests>>

\* lines 120-127, resumed at the yield: the next record of the page, or the
\* end of the page: stop after a short page, else the next page's request.
Resume(s) ==
    IF pos[s] < Len(records[s])
      THEN /\ pos' = [pos EXCEPT ![s] = @ + 1]
           /\ yielded' = [yielded EXCEPT ![s] = Append(@, records[s][pos[s] + 1])]
           /\ UNCHANGED <<pc, page, requests, records>>
      ELSE IF IsShortPage(s, records[s])
        THEN /\ pc' = [pc EXCEPT ![s] = "done"]
             /\ UNCHANGED <<page, requests, records, pos, yielded>>
        ELSE /\ IssueRequest(s, page[s] + 1)
             /\ UNCHANGED <<records, pos, yielded>>

\* The consumer calls next() on the generator.
Pull(s) ==
    /\ UNCHANGED <<windowVars, recordVars>>
    /\ pc[s] \in {"ready", "suspended"}
    /\ pulls' = [pulls EXCEPT ![s] = @ + 1]
    /\ IF pc[s] = "ready"
         THEN /\ IssueRequest(s, 1)
              /\ UNCHANGED <<records, pos, yielded>>
         ELSE Resume(s)
    /\ UNCHANGED responses

\* The last page the mocked server may answer in full.
PageLimit ==
    IF Cardinality({t \in StreamNames : pc[t] # "idle"}) > 1
      THEN MaxConcurrentPages ELSE MaxPages

\* The GET in flight comes back with a page of n records.
RespondPage(s, n) ==
    /\ UNCHANGED <<windowVars, recordVars>>
    /\ pc[s] = "inflight"
    /\ n \in PageSizes(default_count(s))
    /\ page[s] < PageLimit \/ n < default_count(s)
    /\ responses' = [responses EXCEPT ![s] = Append(@, [kind |-> "ok", n |-> n])]
    /\ TakePage(s, PageOf(page[s], n))
    /\ UNCHANGED pulls

\* The GET in flight fails.
RespondError(s, e) ==
    /\ UNCHANGED <<windowVars, recordVars>>
    /\ pc[s] = "inflight"
    /\ responses' = [responses EXCEPT ![s] = Append(@, [kind |-> e, n |-> 0])]
    /\ RaiseError(s, e)
    /\ UNCHANGED pulls

----------------------------------------------------------------------------
(* The specifications: one per part of the program; the parts not run    *)
(* stay idle.                                                              *)

PageIdle ==
    /\ pc = [t \in StreamNames |-> "idle"]
    /\ page = [t \in StreamNames |-> 0]
    /\ records = [t \in StreamNames |-> << >>]
    /\ pos = [t \in StreamNames |-> 0]
    /\ requests = [t \in StreamNames |-> << >>]
    /\ responses = [t \in StreamNames |-> << >>]
    /\ yielded = [t \in StreamNames |-> << >>]
    /\ pulls = [t \in StreamNames |-> 0]

WindowIdle ==
    /\ bookmark = << >>
    /\ config = << >>
    /\ now = [y |-> 2024, m |-> 5, d |-> 2, secs |-> 0]
    /\ wpc = "idle"
    /\ params = << >>

RecordIdle ==
    /\ stream = "none"
    /\ row = << >>
    /\ ppc = "idle"
    /\ out = None

PageInit ==
    /\ \E s \in StreamNames :
         pc = [t \in StreamNames |-> IF t = s THEN "ready" ELSE "idle"]
    /\ page = [t \in StreamNames |-> 0]
    /\ records = [t \in StreamNames |-> << >>]
    /\ pos = [t \in StreamNames |-> 0]
    /\ requests = [t \in StreamNames |-> << >>]
    /\ responses = [t \in StreamNames |-> << >>]
    /\ yielded = [t \in StreamNames |-> << >>]
    /\ pulls = [t \in StreamNames |-> 0]

Init == PageInit /\ WindowIdle /\ RecordIdle

Next ==
    \/ \E s \in StreamNames : Pull(s)
    \/ \E s \in StreamNames : \E n \in PageSizes(default_count(s)) : RespondPage(s, n)
    \/ \E s \in StreamNames : \E e \in RequestErrors : RespondError(s, e)

Spec == Init /\ [][Next]_vars

\* The sets of streams run side by side, each stream in a thread of its own.
ConcurrentRuns == {{"shops", "sales"}, {"purchase_orders", "stock_changes"}}

ConcurrentInit ==
    /\ \E R \in ConcurrentRuns :
         pc = [t \in StreamNames |-> IF t \in R THEN "ready" ELSE "idle"]
    /\ page = [t \in StreamNames |-> 0]
    /\ records = [t \in StreamNames |-> << >>]
    /\ pos = [t \in StreamNames |-> 0]
    /\ requests = [t \in StreamNames |-> << >>]
    /\ responses = [t \in StreamNames |-> << >>]
    /\ yielded = [t \in StreamNames |-> << >>]
    /\ pulls = [t \in StreamNames |-> 0]
    /\ WindowIdle
    /\ RecordIdle

SpecConcurrent == ConcurrentInit /\ [][Next]_vars

WindowInit ==
    /\ bookmark \in {<< >>} \cup {<<b>> : b \in Bookmarks}
    /\ config \in ConfigStartDates
    /\ now \in Nows
    /\ wpc = "ready"
    /\ params = << >>
    /\ PageIdle
    /\ RecordIdle

WindowNext == get_url_params

SpecWindow == WindowInit /\ [][WindowNext]_vars

FlattenInit ==
    /\ stream = "TilroyStream"
    /\ row \in FlattenInputs
    /\ ppc = "ready"
    /\ out = None
    /\ PageIdle
    /\ WindowIdle

FlattenNext == Flatten \/ Reflatten

SpecFlatten == FlattenInit /\ [][FlattenNext]_vars

AdapterInit ==
    /\ stream \in StreamNames
    /\ row \in RowsOf(stream)
    /\ ppc = "ready"
    /\ out = None
    /\ PageIdle
    /\ WindowIdle

AdapterNext == post_process

SpecAdapter == AdapterInit /\ [][AdapterNext]_vars

----------------------------------------------------------------------------
(* Pagination: helpers of the claims *)

RECURSIVE SumOfPages(_)
\* The number of records in a sequence of responses.
SumOfPages(rs) == IF rs = << >> THEN 0 ELSE rs[1].n + SumOfPages(Tail(rs))

RECURSIVE ConcatPages(_, _)
\* The records of responses rs, the first of which answers page p, in order.
ConcatPages(rs, p) ==
    IF rs = << >> THEN << >>
    ELSE PageOf(p, rs[1].n) \o ConcatPages(Tail(rs), p + 1)

HasParam(url, name) == \E i \in 1..Len(url.query) : url.query[i][1] = name

Param(url, name) ==
    LET i == CHOOSE j \in 1..Len(url.query) : url.query[j][1] = name
    IN  url.query[i][2]

Running == {s \in StreamNames : pc[s] # "idle"}

\* C1: request_records stops at the first page shorter than the page size
\* (an empty one included): every response before the last one issued is a
\* full page; when the generator has returned, the last response is a short
\* page, the number of requests is the index of that page, and the yielded
\* records are exactly the records of all pages up to it, in page order and
\* in within-page order; it returns (no error) whenever no request failed.
C1_StopsAtFirstShortPage ==
    \A s \in Running :
      LET c == default_count(s)
          rs == responses[s]
          n == Len(rs)
      IN  /\ \A i \in 1..(Len(requests[s]) - 1) : rs[i].kind = "ok" /\ rs[i].n = c
          /\ pc[s] = "done" =>
               /\ n >= 1
               /\ rs[n].kind = "ok"
               /\ rs[n].n < c
               /\ Len(requests[s]) = n
               /\ yielded[s] = ConcatPages(rs, 1)
               /\ Len(yielded[s]) = (n - 1) * c + rs[n].n
          /\ (pc[s] = "raised") => (n >= 1 /\ rs[n].kind \in RequestErrors)

\* C1 witness: pages of sizes [N, N, N, k], 0 < k < N, gave 3N + k records
\* after 4 requests.
C1_Witness ==
    \E s \in Running :
      /\ pc[s] = "done"
      /\ Len(requests[s]) = 4
      /\ responses[s][4].n = default_count(s) - 1
      /\ Len(yielded[s]) = 4 * default_count(s) - 1

\* C3: every page request of a stream with a replication key carries
\* dateFrom (and for sales also dateTo) in its query, next to count and page.
C3_RequestsCarryDateWindow ==
    \A s \in Running :
      replication_key(s) # "None" =>
        \A i \in 1..Len(requests[s]) :
          /\ HasParam(requests[s][i], "count")
          /\ HasParam(requests[s][i], "page")
          /\ HasParam(requests[s][i], "dateFrom")
          /\ (s = "sales" => HasParam(requests[s][i], "dateTo"))

\* C9: a failed request ends the sequence at once: the failed response is
\* the last one, its request is the last request (page p is not asked again
\* and no later page is asked), the generator has raised, every page was
\* requested once, and the yielded records are exactly those of pages
\* 1..p-1.
C9_FailureAbortsSequence ==
    \A s \in Running :
      \A p \in 1..Len(responses[s]) :
        responses[s][p].kind \in RequestErrors =>
          /\ pc[s] = "raised"
          /\ p = Len(responses[s])
          /\ p = Len(requests[s])
          /\ \A i \in 1..p : Param(requests[s][i], "page") = i
          /\ yielded[s] = ConcatPages(SubSeq(responses[s], 1, p - 1), 1)
          /\ Len(yielded[s]) = (p - 1) * default_count(s)

\* C9 witness: the request for page 2 failed on its JSON body after the
\* records of page 1 had been yielded.
C9_Witness ==
    \E s \in Running :
      /\ pc[s] = "raised"
      /\ Len(requests[s]) = 2
      /\ responses[s][2].kind = "JSONDecodeError"
      /\ Len(yielded[s]) = default_count(s)

\* At most one request is in flight, and only while the generator is inside
\* requests.get.
OneInFlight ==
    \A s \in Running :
      /\ Len(requests[s]) - Len(responses[s]) \in {0, 1}
      /\ (Len(requests[s]) - Len(responses[s]) = 1) <=> (pc[s] = "inflight")

\* A step that issues a request is a next() call of the consumer, made when
\* no request is in flight and every record of every page received so far
\* has been yielded; and every step yields at most one record.
LazyStep ==
    \A s \in Running :
      /\ requests'[s] # requests[s] =>
           /\ pulls'[s] = pulls[s] + 1
           /\ pc[s] # "inflight"
           /\ Len(requests'[s]) = Len(requests[s]) + 1
           /\ Len(yielded[s]) = SumOfPages(responses[s])
           /\ yielded'[s] = yielded[s]
      /\ Len(yielded'[s]) <= Len(yielded[s]) + 1

\* C10: pagination is sequential and lazy: at most one request in flight;
\* the request for the next page is issued only by a next() call made after
\* every record of the pages before it has been yielded; without next()
\* calls no request is issued.
C10_SequentialAndLazy == []OneInFlight /\ [][LazyStep]_vars

\* C10 witness: the request for page 2 is in flight, issued by the next()
\* call that followed the last record of a full page 1.
C10_Witness ==
    \E s \in Running :
      /\ pc[s] = "inflight"
      /\ Len(requests[s]) = 2
      /\ pulls[s] = default_count(s) + 1
      /\ Len(yielded[s]) = default_count(s)

----------------------------------------------------------------------------
(* Window selection: helpers of the claims *)

\* The form YYYY-MM-DD.
IsIsoDate(str) ==
    /\ Len(str) = 10
    /\ str[5] = "-"
    /\ str[8] = "-"
    /\ \A i \in {1, 2, 3, 4, 6, 7, 9, 10} : IsDigit(str[i])

\* The date a string of the form YYYY-MM-DD names.
DateOfIso(str) == [y |-> NumberValue(SubSeq(str, 1, 4)),
                   m |-> NumberValue(SubSeq(str, 6, 7)),
                   d |-> NumberValue(SubSeq(str, 9, 10))]

DateOf(dt) == [y |-> dt.y, m |-> dt.m, d |-> dt.d]

\* The calendar day before a date.
PrevDay(date) ==
    IF date.d > 1 THEN [date EXCEPT !.d = date.d - 1]
    ELSE IF date.m > 1
      THEN [y |-> date.y, m |-> date.m - 1, d |-> DaysInMonth(date.y, date.m - 1)]
      ELSE [y |-> date.y - 1, m |-> 12, d |-> 31]

\* The start dates of ConfigStartDates that name a calendar date, with it.
ValidStartDates ==
    { << <<"2", "0", "2", "4", "-", "0", "1", "-", "0", "1">>,
         [y |-> 2024, m |-> 1, d |-> 1] >>,
      << <<"2", "0", "2", "3", "-", "1", "2", "-", "3", "1">>,
         [y |-> 2023, m |-> 12, d |-> 31] >>,
      << <<"2", "0", "2", "4", "-", "0", "2", "-", "2", "9">>,
         [y |-> 2024, m |-> 2, d |-> 29] >>,
      << <<"2", "0", "2", "4", "-", "3", "-", "9">>,
         [y |-> 2024, m |-> 3, d |-> 9] >> }

\* C4: once get_url_params has run: with no bookmark and a valid start
\* date it returned, and dateFrom names the configured start date; with a
\* bookmark it returned whatever the configured start date is, and dateFrom
\* names the calendar day before the bookmark's date; dateFrom has the form
\* YYYY-MM-DD.
C4_DateFromRule ==
    wpc \in {"returned", "raised"} =>
      /\ bookmark = << >> =>
           \A v \in ValidStartDates :
             config = v[1] =>
               /\ wpc = "returned"
               /\ IsIsoDate(Get(params, "dateFrom"))
               /\ DateOfIso(Get(params, "dateFrom")) = v[2]
      /\ bookmark # << >> =>
           /\ wpc = "returned"
           /\ IsIsoDate(Get(params, "dateFrom"))
           /\ DateOfIso(Get(params, "dateFrom")) = PrevDay(DateOf(bookmark[1]))

\* C4 witness: bookmark 2024-03-01 late in the day gave dateFrom 2024-02-29.
C4_Witness ==
    /\ wpc = "returned"
    /\ bookmark = << [y |-> 2024, m |-> 3, d |-> 1, secs |-> 86399] >>
    /\ Get(params, "dateFrom") = <<"2", "0", "2", "4", "-", "0", "2", "-", "2", "9">>

\* C5: the params get_url_params of sales returns hold both dateFrom and
\* dateTo; dateTo names the current date, dateFrom the start of the window
\* (bookmark 2024-05-01 gives 2024-04-30).
C5_SalesParamsHaveBothBounds ==
    wpc = "returned" =>
      /\ Has(params, "dateFrom")
      /\ Has(params, "dateTo")
      /\ IsIsoDate(Get(params, "dateTo"))
      /\ DateOfIso(Get(params, "dateTo")) = DateOf(now)
      /\ IsIsoDate(Get(params, "dateFrom"))
      /\ bookmark # << >> =>
           DateOfIso(Get(params, "dateFrom")) = PrevDay(DateOf(bookmark[1]))
      /\ (bookmark # << >> /\ DateOf(bookmark[1]) = [y |-> 2024, m |-> 5, d |-> 1]) =>
           Get(params, "dateFrom") = <<"2", "0", "2", "4", "-", "0", "4", "-", "3", "0">>

\* C5 witness: bookmark 2024-05-01 on 2024-05-02 gave dateFrom 2024-04-30
\* and dateTo 2024-05-02.
C5_Witness ==
    /\ wpc = "returned"
    /\ bookmark = << [y |-> 2024, m |-> 5, d |-> 1, secs |-> 0] >>
    /\ Get(params, "dateFrom") = <<"2", "0", "2", "4", "-", "0", "4", "-", "3", "0">>
    /\ Get(params, "dateTo") = <<"2", "0", "2", "4", "-", "0", "5", "-", "0", "2">>

----------------------------------------------------------------------------
(* flatten_record: helpers of the claims *)

RECURSIVE LeafPaths(_)
\* The paths (sequences of keys) of a record that end in a scalar or array.
LeafPaths(dict) ==
    UNION { IF IsDict(dict[i][2])
              THEN {<<dict[i][1]>> \o q : q \in LeafPaths(dict[i][2].d)}
              ELSE {<<dict[i][1]>>} : i \in 1..Len(dict) }

RECURSIVE ValueAt(_, _)
ValueAt(dict, q) ==
    IF Len(q) = 1 THEN Get(dict, q[1]) ELSE ValueAt(Get(dict, q[1]).d, Tail(q))

RECURSIVE Dotted(_)
\* The keys of a path joined by "."
Dotted(q) == IF Len(q) = 1 THEN q[1] ELSE q[1] \o "." \o Dotted(Tail(q))

\* C6: the result of flatten_record has no mapping as a value; its keys are
\* exactly the dotted paths of the scalars and arrays of the input, each
\* once; and where only one path gives a dotted key, that key holds the
\* path's scalar or array unchanged (so mappings survive only in arrays).
C6_FlatHasNoNestedMapping ==
    (stream = "TilroyStream" /\ ppc = "returned") =>
      /\ IsDict(out)
      /\ \A i \in 1..Len(out.d) : ~IsDict(out.d[i][2])
      /\ Keys(out.d) = {Dotted(q) : q \in LeafPaths(row)}
      /\ Cardinality(Keys(out.d)) = Len(out.d)
      /\ \A q \in LeafPaths(row) :
           (\A r \in LeafPaths(row) : Dotted(r) = Dotted(q) => r = q) =>
             Get(out.d, Dotted(q)) = ValueAt(row, q)

\* C6 witness: a scalar at a -> b -> c came out under a.b.c next to an
\* array that still holds its mapping.
C6_Witness ==
    /\ stream = "TilroyStream"
    /\ ppc = "returned"
    /\ <<"a", "b", "c">> \in LeafPaths(row)
    /\ Has(out.d, "a.b.c")
    /\ Get(out.d, "a.b.c") = [s |-> "1"]
    /\ Has(out.d, "b")
    /\ IsList(Get(out.d, "b"))
    /\ \E i \in 1..Len(Get(out.d, "b").l) : IsDict(Get(out.d, "b").l[i])

----------------------------------------------------------------------------
(* post_process: helpers of the claims *)

\* The vendor's error envelope: both code and message are present.
IsErrorEnvelope(r) == Has(r, "code") /\ Has(r, "message")

\* The flattened keys an adapter extracts from a nested source key.
TargetKeys(s, src) ==
    CASE s = "products" -> {"brand_code", "brand_descriptions"}
      [] s = "purchase_orders" /\ src = "prices" ->
           {PriceFields(cur)[i][1] :
              cur \in {"tenantCurrency", "supplierCurrency"}, i \in 1..4}
      [] s = "purchase_orders" /\ src \in {"created", "modified"} ->
           {src \o "_user_login", src \o "_user_sourceId", src \o "_timestamp"}
      [] OTHER -> {FieldsOf(s, src)[i][1] : i \in 1..Len(FieldsOf(s, src))}

Called == stream \in StreamNames /\ ppc \in {"returned", "raised"}

\* C2: post_process of every adapter returns None for a record that has
\* both code and message.
C2_ErrorEnvelopeDropped ==
    (Called /\ IsErrorEnvelope(row)) => (ppc = "returned" /\ out = None)

\* C7: for a products record whose brand is a mapping, post_process returns
\* a record without brand, whose brand_code is brand.code (None when brand
\* has no code) and whose brand_descriptions is the array brand.descriptions
\* as it was.
C7_ProductsBrand ==
    (Called /\ stream = "products" /\ Has(row, "brand") /\ IsDict(Get(row, "brand"))) =>
      LET brand == Get(row, "brand").d
      IN  /\ ppc = "returned"
          /\ IsDict(out)
          /\ ~Has(out.d, "brand")
          /\ Has(out.d, "brand_code")
          /\ Get(out.d, "brand_code") = IF Has(brand, "code") THEN Get(brand, "code") ELSE None
          /\ Has(out.d, "brand_descriptions")
          /\ Has(brand, "descriptions") =>
               Get(out.d, "brand_descriptions") = Get(brand, "descriptions")

\* C7 witness: brand {code: B1, descriptions: [two mappings]} came out as
\* brand_code B1 and brand_descriptions holding the two mappings.
C7_Witness ==
    /\ Called
    /\ stream = "products"
    /\ ppc = "returned"
    /\ Has(row, "brand")
    /\ IsDict(Get(row, "brand"))
    /\ Has(Get(row, "brand").d, "descriptions")
    /\ Get(out.d, "brand_code") = [s |-> "B1"]
    /\ Len(Get(out.d, "brand_descriptions").l) = 2
    /\ IsDict(Get(out.d, "brand_descriptions").l[1])
    /\ ~Has(out.d, "brand")

\* C8: a record returned by post_process does not hold a nested source key
\* together with a flattened key extracted from it: where the source key is
\* still there, every flattened key of it in the result was in the input
\* with the same value.
C8_SourceKeyNotKeptWithChildren ==
    (Called /\ ppc = "returned") =>
      \A i \in 1..Len(SourceKeys(stream)) :
        LET src == SourceKeys(stream)[i]
        IN  Has(out.d, src) =>
              \A f \in TargetKeys(stream, src) :
                Has(out.d, f) => (Has(row, f) /\ Get(out.d, f) = Get(row, f))

\* C8 witness: a purchase order with warehouse and created (with its user)
\* came out with neither key and with their flattened keys.
C8_Witness ==
    /\ Called
    /\ stream = "purchase_orders"
    /\ ppc = "returned"
    /\ Has(row, "warehouse")
    /\ Has(row, "created")
    /\ ~Has(out.d, "warehouse")
    /\ ~Has(out.d, "created")
    /\ Get(out.d, "warehouse_name") = [s |-> "name"]
    /\ Get(out.d, "created_user_login") = [s |-> "login"]
    /\ Get(out.d, "created_timestamp") = [s |-> "timestamp"]

----------------------------------------------------------------------------
(* Concurrent streams: helpers of the claims *)

\* The number of non-empty pages among responses rs.
NonEmptyPages(rs) == Cardinality({i \in 1..Len(rs) : rs[i].n > 0})

\* What stream s has requested and yielded, and where its generator is, is
\* what its own responses and its own next() calls make it when it runs
\* alone: pages 1, 2, ... requested in turn, every answered page but the
\* last one full, the yielded records a prefix of the pages received.
RunsAsAlone(s) ==
    LET c == default_count(s)
        rs == responses[s]
        n == Len(rs)
        nreq == Len(requests[s])
        all == ConcatPages(SelectSeq(rs, LAMBDA x : x.kind = "ok"), 1)
    IN  /\ requests[s] = [i \in 1..nreq |-> Url(s, i)]
        /\ page[s] = nreq
        /\ nreq = n + (IF pc[s] = "inflight" THEN 1 ELSE 0)
        /\ \A i \in 1..(nreq - 1) : rs[i].kind = "ok" /\ rs[i].n = c
        /\ Len(yielded[s]) <= Len(all)
        /\ yielded[s] = SubSeq(all, 1, Len(yielded[s]))
        /\ Len(yielded[s]) =
             IF pc[s] = "suspended"
               THEN SumOfPages(SubSeq(rs, 1, n - 1)) + pos[s]
               ELSE SumOfPages(rs)
        /\ pc[s] = "suspended" =>
             /\ rs[n].kind = "ok"
             /\ pos[s] \in 1..rs[n].n
             /\ records[s] = PageOf(n, rs[n].n)
        /\ pulls[s] = nreq + (Len(yielded[s]) - NonEmptyPages(rs))
                        + (IF pc[s] = "done" /\ rs[n].n > 0 THEN 1 ELSE 0)
        /\ pc[s] = "done" <=> (n >= 1 /\ rs[n].kind = "ok" /\ rs[n].n < c
                               /\ pulls[s] > nreq + (SumOfPages(rs) - NonEmptyPages(rs))
                                             - (IF rs[n].n = 0 THEN 1 ELSE 0))
        /\ pc[s] = "raised" <=> (n >= 1 /\ rs[n].kind \in RequestErrors)

StreamState(s) ==
    <<pc[s], page[s], records[s], pos[s], requests[s], responses[s], yielded[s], pulls[s]>>

\* A step is a step of one stream and leaves every other stream as it was.
OneStreamStep ==
    \E s \in StreamNames : \A t \in StreamNames \ {s} : StreamState(t)' = StreamState(t)

\* C11: with several streams running, in every interleaving each stream's
\* page counter, requests and yielded records are those of the stream
\* running alone on the same responses, and a step of one stream, a failure
\* included, changes nothing of another stream.
C11_StreamsAreIndependent ==
    [](\A s \in Running : RunsAsAlone(s)) /\ [][OneStreamStep]_vars

\* C11 witness: shops failed on its first request while sales went on to
\* its second page and returned all its records.
C11_Witness ==
    /\ pc["shops"] = "raised"
    /\ Len(requests["shops"]) = 1
    /\ yielded["shops"] = << >>
    /\ pc["sales"] = "done"
    /\ Len(requests["sales"]) = 2
    /\ Len(yielded["sales"]) = 2 * default_count("sales") - 1

----------------------------------------------------------------------------
(* Malformed start dates: helpers of the claims *)

\* A configured start date that names no calendar date as YYYY-MM-DD.
IsMalformed(str) == \A v \in ValidStartDates : v[1] # str

\* C12 as stated: with a malformed start date get_url_params raises,
\* whatever the bookmark.
C12_MalformedAlwaysFails ==
    (wpc \in {"returned", "raised"} /\ IsMalformed(config)) => wpc = "raised"

\* C12 as amended: with a malformed start date get_url_params raises and
\* returns no params exactly when no bookmark exists; with a bookmark the
\* start date is not read and params are returned.  Nothing raises before
\* get_url_params runs.
C12_MalformedFailsWithoutBookmark ==
    /\ wpc \in {"ready", "returned", "raised"}
    /\ (wpc \in {"returned", "raised"} /\ IsMalformed(config)) =>
         /\ wpc = "raised" <=> bookmark = << >>
         /\ wpc = "raised" => params = << >>
         /\ wpc = "returned" => Has(params, "dateFrom")
    /\ wpc = "raised" => (IsMalformed(config) /\ bookmark = << >>)

\* C12 witness: start date 2023-02-29 and no bookmark: get_url_params raised.
C12_Witness ==
    /\ wpc = "raised"
    /\ bookmark = << >>
    /\ config = <<"2", "0", "2", "3", "-", "0", "2", "-", "2", "9">>
    /\ params = << >>

----------------------------------------------------------------------------
(* The adapters and the generic flattener *)

\* The keys the rules of stream s name: its nested source keys and the
\* flattened keys it writes.
NamedKeys(s) ==
    {SourceKeys(s)[i] : i \in 1..Len(SourceKeys(s))} \cup
    UNION {TargetKeys(s, SourceKeys(s)[i]) : i \in 1..Len(SourceKeys(s))}

\* The positions of row that hold a mapping under a key stream s does not name.
UnnamedMappings(s, r) == {i \in 1..Len(r) : r[i][1] \notin NamedKeys(s) /\ IsDict(r[i][2])}

\* C13 as stated: post_process of every adapter flattens first, so a mapping
\* under a key the adapter's rules do not name is not a mapping in the
\* returned record.
C13_FlattenerAppliedFirst ==
    (Called /\ ppc = "returned") =>
      \A i \in UnnamedMappings(stream, row) :
        ~(Has(out.d, row[i][1]) /\ IsDict(Get(out.d, row[i][1])))

\* C13 amended: post_process of every adapter runs its own rules only and
\* never flatten_record: a mapping under a key the rules do not name is
\* returned under the same key as the same nested mapping, and no dotted key
\* of its subfields is added.
C13_UnnamedMappingStaysNested ==
    (Called /\ ppc = "returned") =>
      \A i \in UnnamedMappings(stream, row) :
        LET k == row[i][1]
            v == row[i][2]
        IN  /\ Has(out.d, k)
            /\ Get(out.d, k) = v
            /\ \A j \in 1..Len(v.d) : ~Has(out.d, k \o "." \o v.d[j][1])

\* C13 witness: a shops record with type and an unexpected address came out
\* with type_code extracted and address still the nested mapping.
C13_Witness ==
    /\ Called
    /\ stream = "shops"
    /\ ppc = "returned"
    /\ Has(row, "type")
    /\ Has(row, "address")
    /\ Has(out.d, "type_code")
    /\ ~Has(out.d, "type")
    /\ IsDict(Get(out.d, "address"))
    /\ Get(Get(out.d, "address").d, "street") = [s |-> "Main"]
    /\ ~Has(out.d, "address.street")

----------------------------------------------------------------------------
(* PurchaseOrders: created and modified *)

\* The value of key k in mapping d, None when d has no k (dict.get).
GetOrNone(d, k) == IF Has(d, k) THEN Get(d, k) ELSE None

\* The record out holds the three audit keys of src, read from obj.
HasAuditKeys(o, src, obj) ==
    /\ Has(o, src \o "_user_login")
    /\ Has(o, src \o "_user_sourceId")
    /\ Has(o, src \o "_timestamp")
    /\ Get(o, src \o "_timestamp") = GetOrNone(obj, "timestamp")
    /\ ~Has(o, src)

----------------------------------------------------------------------------
(* The page and count parameters *)

\* C15: in every run of request_records the i-th request asks page i (from
\* 1, by steps of one, none twice, none skipped) and every request carries
\* the same count, the page size of the stream: that of ProductsStream for
\* products, that of TilroyStream for the others.
C15_PageAndCountParams ==
    \A s \in Running :
      \A i \in 1..Len(requests[s]) :
        /\ Len(requests[s][i].query) = 2
        /\ Param(requests[s][i], "page") = i
        /\ Param(requests[s][i], "count") =
             IF s = "products" THEN ProductsStream_default_count
             ELSE TilroyStream_default_count
        /\ Param(requests[s][i], "count") = Param(requests[s][1], "count")
        /\ (pc[s] = "inflight" /\ i = Len(requests[s])) => page[s] = i

\* C15 witness: products was asked for pages 1, 2, 3 with its own count,
\* which is not the count of the other streams.
C15_Witness ==
    /\ "products" \in Running
    /\ Len(requests["products"]) = 3
    /\ Param(requests["products"][1], "page") = 1
    /\ Param(requests["products"][3], "page") = 3
    /\ Param(requests["products"][3], "count") = ProductsStream_default_count
    /\ ProductsStream_default_count # TilroyStream_default_count

----------------------------------------------------------------------------
(* What post_process leaves alone *)

\* C16: a record returned by the post_process of an adapter holds every
\* top-level key of the input that is neither a nested source key nor a
\* flattened target key of the adapter, with the value it had; the arrays
\* lines, payments and vat of a sales record come back as they were, the
\* mappings inside them still nested.
C16_OtherKeysUnchanged ==
    (Called /\ ppc = "returned") =>
      /\ \A i \in 1..Len(row) :
           row[i][1] \notin NamedKeys(stream) =>
             (Has(out.d, row[i][1]) /\ Get(out.d, row[i][1]) = row[i][2])
      /\ stream = "sales" =>
           \A k \in {"lines", "payments", "vat"} :
             Has(row, k) => (Has(out.d, k) /\ Get(out.d, k) = LinesOf(
                               CASE k = "lines" -> "line"
                                 [] k = "payments" -> "payment"
                                 [] k = "vat" -> "vat"))

\* C16 witness: a sales record with customer, lines, payments and vat came
\* out with customer flattened and the three arrays as they were, a line
\* still holding its nested sku.
C16_Witness ==
    /\ Called
    /\ stream = "sales"
    /\ ppc = "returned"
    /\ Has(row, "customer")
    /\ \A k \in {"lines", "payments", "vat"} : Has(row, k) /\ Has(out.d, k)
    /\ ~Has(out.d, "customer")
    /\ Has(out.d, "customer_idTilroy")
    /\ Has(out.d, "tilroyId")
    /\ Get(out.d, "lines") = Get(row, "lines")
    /\ Get(out.d, "payments") = Get(row, "payments")
    /\ Get(out.d, "vat") = Get(row, "vat")
    /\ IsDict(Get(Get(out.d, "lines").l[1].d, "sku"))

----------------------------------------------------------------------------
(* flatten_record applied twice *)

\* The second call of flatten_record, on the result of the first.
ReflattenStep == stream = "TilroyStream" /\ ppc = "returned" /\ ppc' = "again"

\* C17: flatten_record is idempotent: flattening the result of flatten_record
\* again gives the same record, same keys in the same order with the same
\* values, arrays that hold mappings included.
C17_FlattenIdempotent ==
    /\ [](ppc = "again" => out = [d |-> flatten_record(row, "", ".")])
    /\ [][ReflattenStep => out' = out]_vars

\* C17 witness: a record with a nested mapping and an array holding a
\* mapping was flattened twice; the result has the dotted key and the array
\* with its mapping.
C17_Witness ==
    /\ stream = "TilroyStream"
    /\ ppc = "again"
    /\ Has(row, "a")
    /\ IsDict(Get(row, "a"))
    /\ Has(out.d, "a.b")
    /\ Has(out.d, "b")
    /\ IsList(Get(out.d, "b"))
    /\ IsDict(Get(out.d, "b").l[1])

----------------------------------------------------------------------------
(* flatten_record: two paths, one flat key *)

RECURSIVE LeafPathSeq(_)
\* The paths of dict to its scalars and arrays, in the order the loop of
\* flatten_record meets them.
LeafPathSeq(dict) ==
    IF dict = << >> THEN << >>
    ELSE (IF IsDict(dict[1][2])
            THEN LET inner == LeafPathSeq(dict[1][2].d)
                 IN  [j \in 1..Len(inner) |-> <<dict[1][1]>> \o inner[j]]
            ELSE << <<dict[1][1]>> >>)
         \o LeafPathSeq(Tail(dict))

\* The last path of seq that gives flat key k.
LastPathOf(seq, k) ==
    seq[CHOOSE i \in 1..Len(seq) :
          /\ Dotted(seq[i]) = k
          /\ \A j \in (i + 1)..Len(seq) : Dotted(seq[j]) # k]

\* Two different paths of dict give the same flat key.
HasCollision(dict) ==
    \E p, q \in LeafPaths(dict) : p # q /\ Dotted(p) = Dotted(q)

\* C18: when paths of the input give the same flat key, flatten_record
\* returns (it raises nothing) a record that holds the key exactly once, with
\* the value of the path met last in the traversal of the input.
C18_LastWriteWins ==
    (stream = "TilroyStream" /\ ppc = "returned") =>
      /\ IsDict(out)
      /\ LET seq == LeafPathSeq(row)
         IN  \A i \in 1..Len(seq) :
               LET k == Dotted(seq[i])
               IN  /\ Cardinality({j \in 1..Len(out.d) : out.d[j][1] = k}) = 1
                   /\ Get(out.d, k) = ValueAt(row, LastPathOf(seq, k))

\* C18 witness: a top-level key a.b holding a scalar, then a -> b holding an
\* array: the result has a.b once, holding the array.
C18_Witness ==
    /\ stream = "TilroyStream"
    /\ ppc = "returned"
    /\ HasCollision(row)
    /\ Len(row) = 2
    /\ row[1] = <<"a.b", [s |-> "1"]>>
    /\ row[2][1] = "a"
    /\ IsDict(row[2][2])
    /\ IsList(Get(row[2][2].d, "b"))
    /\ Len(out.d) = 1
    /\ out.d[1][1] = "a.b"
    /\ out.d[1][2] = Get(row[2][2].d, "b")

----------------------------------------------------------------------------
(* post_process: a nested source key that is null *)

\* Every nested source key of stream s is absent from r, null, or a mapping.
AbsentNullOrMapping(s, r) ==
    \A i \in 1..Len(SourceKeys(s)) :
      LET src == SourceKeys(s)[i]
      IN  Has(r, src) => (Get(r, src) = None \/ IsDict(Get(r, src)))

\* The nested source keys whose block reads plain subfields with .get.
PlainSources(s) ==
    {SourceKeys(s)[i] : i \in 1..Len(SourceKeys(s))} \
      {"brand", "prices", "created", "modified"}

\* C19: for every adapter and every record whose nested source keys are each
\* absent, null or a mapping with any of its subfields, post_process returns
\* a record and raises nothing; a subfield that is missing from the mapping
\* gives its flattened key with the value None.
C19_NullSourceKeyNeverRaises ==
    (Called /\ AbsentNullOrMapping(stream, row)) =>
      /\ ppc = "returned"
      /\ \A src \in PlainSources(stream) :
           (Has(row, src) /\ IsDict(Get(row, src))) =>
             \A i \in 1..Len(FieldsOf(stream, src)) :
               LET f == FieldsOf(stream, src)[i]
               IN  /\ Has(out.d, f[1])
                   /\ Get(out.d, f[1]) = GetOrNone(Get(row, src).d, f[2])

====
